---- MODULE Spec2Model ----
(***************************************************************************)
(* Model of tensorflow/compiler/jit/xla_platform_info.cc:                  *)
(*   ParseVisibleDeviceList, GetAllowedGpus, CreateXlaDeviceCompiler,      *)
(*   BuildXlaDeviceCompiler, XlaPlatformInfoFromDevice, GetAllocator.      *)
(*                                                                         *)
(* Strings that the code inspects character by character (the visible      *)
(* device list) are sequences of one-character strings.  Pointers are      *)
(* strings naming the object they point to, "nullptr" being the null       *)
(* pointer.  A Status is a record [code, message]; a message is the        *)
(* sequence of the pieces StrCat concatenates.                             *)
(***************************************************************************)
EXTENDS Integers, Sequences, FiniteSets, TLC

VARIABLES
    op,                   \* the entry point that ran last ("none" at start)
    args,                 \* its arguments and the collaborators' outcomes
    ret,                  \* what it returned
    xla_device_compiler,  \* the caller's XlaDeviceCompiler* output slot
    num_created,          \* number of XlaDeviceCompiler objects allocated
    aborted               \* a call ended in StatusOr::value() without returning

vars == <<op, args, ret, xla_device_compiler, num_created, aborted>>

-----------------------------------------------------------------------------
(* Bounds *)

MaxLen == 4          \* longest enumerated visible_device_list
MaxCompilers == 2    \* cap on the number of compilers a run allocates

-----------------------------------------------------------------------------
(* Status and StatusOr *)

nullptr == "nullptr"

OkStatus == [code |-> "OK", message |-> <<>>]

InvalidArgument(pieces) == [code |-> "INVALID_ARGUMENT", message |-> pieces]

Unimplemented(pieces) == [code |-> "UNIMPLEMENTED", message |-> pieces]

NotFound(pieces) == [code |-> "NOT_FOUND", message |-> pieces]

Internal(pieces) == [code |-> "INTERNAL", message |-> pieces]

\* Status::ToString(): "<CODE>: <message>"
StatusToString(status) == <<status.code, ": ">> \o status.message

\* std::optional<std::set<int>>
nullopt == [has_value |-> FALSE, value |-> {}]

Some(set) == [has_value |-> TRUE, value |-> set]

-----------------------------------------------------------------------------
(* absl::StrSplit and absl::SimpleAtoi, as ParseVisibleDeviceList uses them *)

kint32max == 2147483647

kint32min == -kint32max - 1

\* absl::ascii_isspace, restricted to the characters of the model
ascii_isspace(c) == c \in {" "}

kAsciiToInt(c) ==
    CASE c = "0" -> 0 [] c = "1" -> 1 [] c = "2" -> 2 [] c = "3" -> 3
      [] c = "4" -> 4 [] c = "5" -> 5 [] c = "6" -> 6 [] c = "7" -> 7
      [] c = "8" -> 8 [] c = "9" -> 9 [] OTHER -> 36

RECURSIVE StripLeading(_)
StripLeading(text) ==
    IF text # <<>> /\ ascii_isspace(Head(text))
    THEN StripLeading(Tail(text))
    ELSE text

RECURSIVE StripTrailing(_)
StripTrailing(text) ==
    IF text # <<>> /\ ascii_isspace(text[Len(text)])
    THEN StripTrailing(SubSeq(text, 1, Len(text) - 1))
    ELSE text

\* safe_parse_positive_int, base 10: fails on a non-digit and on overflow
RECURSIVE safe_parse_positive_int(_, _)
safe_parse_positive_int(text, value) ==
    IF text = <<>> THEN [ok |-> TRUE, value |-> value]
    ELSE LET digit == kAsciiToInt(Head(text)) IN
         IF digit >= 10 THEN [ok |-> FALSE, value |-> value]
         ELSE IF value > kint32max \div 10
              THEN [ok |-> FALSE, value |-> kint32max]
         ELSE IF value * 10 > kint32max - digit
              THEN [ok |-> FALSE, value |-> kint32max]
         ELSE safe_parse_positive_int(Tail(text), value * 10 + digit)

\* safe_parse_negative_int, base 10; kint32min / 10 truncates toward zero,
\* which is -(kint32max / 10)
RECURSIVE safe_parse_negative_int(_, _)
safe_parse_negative_int(text, value) ==
    IF text = <<>> THEN [ok |-> TRUE, value |-> value]
    ELSE LET digit == kAsciiToInt(Head(text)) IN
         IF digit >= 10 THEN [ok |-> FALSE, value |-> value]
         ELSE IF value < -(kint32max \div 10)
              THEN [ok |-> FALSE, value |-> kint32min]
         ELSE IF value * 10 < kint32min + digit
              THEN [ok |-> FALSE, value |-> kint32min]
         ELSE safe_parse_negative_int(Tail(text), value * 10 - digit)

\* absl::SimpleAtoi(str, int32_t*): strips ASCII whitespace on both sides,
\* takes an optional sign, then requires at least one character, all digits.
SimpleAtoi(str) ==
    LET text == StripTrailing(StripLeading(str)) IN
    IF text = <<>> THEN [ok |-> FALSE, value |-> 0]
    ELSE LET negative == Head(text) = "-"
             signed == Head(text) \in {"-", "+"}
             body == IF signed THEN Tail(text) ELSE text
         IN  IF body = <<>> THEN [ok |-> FALSE, value |-> 0]
             ELSE IF negative THEN safe_parse_negative_int(body, 0)
             ELSE safe_parse_positive_int(body, 0)

\* absl::StrSplit(text, ','): every delimiter separates two pieces, empty
\* pieces are kept, and the empty text splits into one empty piece.
RECURSIVE StrSplitFrom(_, _, _)
StrSplitFrom(text, i, piece) ==
    IF i > Len(text) THEN <<piece>>
    ELSE IF text[i] = "," THEN <<piece>> \o StrSplitFrom(text, i + 1, <<>>)
    ELSE StrSplitFrom(text, i + 1, Append(piece, text[i]))

StrSplit(text) == StrSplitFrom(text, 1, <<>>)

-----------------------------------------------------------------------------
(* ParseVisibleDeviceList *)

CouldNotParse(platform_device_id_str, visible_device_list) ==
    InvalidArgument(<<"Could not parse entry in 'visible_device_list': '">>
                    \o platform_device_id_str
                    \o <<"'. visible_device_list = ">>
                    \o visible_device_list)

\* faulty variant of ParseLoop: gpu_ids is assigned the entry instead of receiving it
RECURSIVE ParseLoopKeepsLast(_, _, _, _)
ParseLoopKeepsLast(visible_devices, i, gpu_ids, visible_device_list) ==
    IF i > Len(visible_devices)
    THEN [status |-> OkStatus, value |-> Some(gpu_ids)]
    ELSE LET platform_device_id_str == visible_devices[i]
             parsed == SimpleAtoi(platform_device_id_str)
         IN  IF ~parsed.ok
             THEN [status |-> CouldNotParse(platform_device_id_str,
                                            visible_device_list),
                   value |-> nullopt]
             ELSE ParseLoopKeepsLast(visible_devices, i + 1,
                                     {parsed.value}, visible_device_list)

\* faulty variant of ParseLoop: an entry that does not parse is skipped
RECURSIVE ParseLoopSkipsBad(_, _, _, _)
ParseLoopSkipsBad(visible_devices, i, gpu_ids, visible_device_list) ==
    IF i > Len(visible_devices)
    THEN [status |-> OkStatus, value |-> Some(gpu_ids)]
    ELSE LET platform_device_id_str == visible_devices[i]
             parsed == SimpleAtoi(platform_device_id_str)
         IN  IF ~parsed.ok
             THEN ParseLoopSkipsBad(visible_devices, i + 1, gpu_ids,
                                    visible_device_list)
             ELSE ParseLoopSkipsBad(visible_devices, i + 1,
                                    gpu_ids \cup {parsed.value},
                                    visible_device_list)

\* the for loop over visible_devices, from entry i with gpu_ids built so far
RECURSIVE ParseLoop(_, _, _, _)
ParseLoop(visible_devices, i, gpu_ids, visible_device_list) ==
    IF i > Len(visible_devices)
    THEN [status |-> OkStatus, value |-> Some(gpu_ids)]
    ELSE LET platform_device_id_str == visible_devices[i]
             parsed == SimpleAtoi(platform_device_id_str)
         IN  IF ~parsed.ok
             THEN [status |-> CouldNotParse(platform_device_id_str,
                                            visible_device_list),
                   value |-> nullopt]
             ELSE ParseLoop(visible_devices, i + 1,
                            gpu_ids \cup {parsed.value}, visible_device_list)

\* faulty variant of ParseVisibleDeviceList: the empty list is not special
ParseVisibleDeviceListNoEmptyCase(visible_device_list) ==
    ParseLoop(StrSplit(visible_device_list), 1, {}, visible_device_list)

ParseVisibleDeviceList(visible_device_list) ==
    IF visible_device_list = <<>>
    THEN [status |-> OkStatus, value |-> nullopt]
    ELSE ParseLoop(StrSplit(visible_device_list), 1, {}, visible_device_list)

-----------------------------------------------------------------------------
(* Device types, platforms, backend metadata *)

DEVICE_CPU == "CPU"

DEVICE_GPU == "GPU"

DEVICE_TPU == "TPU"

DEVICE_XLA_CPU == "XLA_CPU"

DEVICE_TPU_XLA_JIT == "XLA_TPU_JIT"

DeviceTypes == {DEVICE_CPU, DEVICE_GPU, DEVICE_TPU, DEVICE_XLA_CPU}

kHostPlatformId == "kHostPlatformId"

kCudaPlatformId == "kCudaPlatformId"

\* an id no platform is registered under
kUnregisteredPlatformId == "kUnregisteredPlatformId"

PlatformIds ==
    {nullptr, kHostPlatformId, kCudaPlatformId, kUnregisteredPlatformId}

\* se::MultiPlatformManager::PlatformWithId: the registered platform with
\* that id, or a NOT_FOUND status
PlatformWithId(platform_id) ==
    CASE platform_id = kHostPlatformId ->
            [status |-> OkStatus, value |-> [id |-> kHostPlatformId,
                                             Name |-> "Host"]]
      [] platform_id = kCudaPlatformId ->
            [status |-> OkStatus, value |-> [id |-> kCudaPlatformId,
                                             Name |-> "CUDA"]]
      [] OTHER ->
            [status |-> NotFound(<<"could not find registered platform with id: ",
                                   platform_id>>),
             value |-> [id |-> nullptr, Name |-> nullptr]]

\* XlaDevice::Metadata objects of the backend-managed devices
XlaDeviceMetadata(md) ==
    CASE md = "metadata_xla_cpu" ->
            [jit_device_type |-> "XLA_CPU_JIT", client |-> "client_xla_cpu",
             platform_id |-> kHostPlatformId]
      [] md = "metadata_xla_gpu" ->
            [jit_device_type |-> "XLA_GPU_JIT", client |-> "client_xla_gpu",
             platform_id |-> kCudaPlatformId]

MetadataPointers == {nullptr, "metadata_xla_cpu", "metadata_xla_gpu"}

\* se::DeviceMemoryAllocator objects: [class, wrapped, target]
NullAllocator == [class |-> nullptr, wrapped |-> nullptr, target |-> nullptr]

\* client->backend().shared_memory_allocator()
shared_memory_allocator(client) ==
    [class |-> "StreamExecutorMemoryAllocator", wrapped |-> nullptr,
     target |-> client]

\* se::TfAllocatorAdapter(wrapped, platform) and (wrapped, stream)
TfAllocatorAdapter(wrapped, target) ==
    [class |-> "TfAllocatorAdapter", wrapped |-> wrapped, target |-> target]

CustomAllocators ==
    {NullAllocator} \cup
    {shared_memory_allocator(XlaDeviceMetadata(md).client) :
        md \in MetadataPointers \ {nullptr}}

XlaPlatformInfo(device_type, platform_id, metadata, allocator) ==
    [device_type |-> device_type, platform_id |-> platform_id,
     xla_device_metadata |-> metadata, custom_allocator |-> allocator]

PlatformInfos ==
    [device_type : DeviceTypes, platform_id : PlatformIds,
     xla_device_metadata : MetadataPointers,
     custom_allocator : CustomAllocators]

\* XlaOpRegistry::GetCompilationDevice: the registry of this process knows
\* the CPU and GPU device types
GetCompilationDevice(device_type) ==
    CASE device_type = DEVICE_CPU ->
            [found |-> TRUE, compilation_device_name |-> "XLA_CPU_JIT"]
      [] device_type = DEVICE_GPU ->
            [found |-> TRUE, compilation_device_name |-> "XLA_GPU_JIT"]
      [] OTHER ->
            [found |-> FALSE, compilation_device_name |-> nullptr]

\* xla::ClientLibrary::GetOrCreateLocalClient on success: one client per
\* platform
LocalClientFor(client_options) ==
    IF client_options.platform = "Host" THEN "local_client_Host"
    ELSE "local_client_CUDA"

-----------------------------------------------------------------------------
(* CreateXlaDeviceCompiler, GetAllowedGpus *)

\* GetMarkForCompilationPassFlags(): process-wide, set once at startup
persistor_config ==
    [tf_xla_persistent_cache_directory |-> "",
     tf_xla_disable_strict_signature_checks |-> FALSE,
     tf_xla_persistent_cache_prefix |-> "xla_compile_cache"]

CreateXlaDeviceCompiler(config, device_type, local_client) ==
    [persistor_config |-> config, device_type |-> device_type,
     client |-> local_client]

\* the value of an output parameter that was not assigned
NoCompiler == CreateXlaDeviceCompiler(persistor_config, nullptr, nullptr)

\* flr is [has_config_proto, visible_device_list]
GetAllowedGpus(flr) ==
    IF flr.has_config_proto
    THEN ParseVisibleDeviceList(flr.visible_device_list)
    ELSE [status |-> OkStatus, value |-> nullopt]

\* xla::LocalClientOptions as default-constructed
DefaultClientOptions ==
    [platform |-> nullptr, intra_op_parallelism_threads |-> -1,
     allowed_devices |-> nullopt]

-----------------------------------------------------------------------------
(* BuildXlaDeviceCompiler.  The result records the returned status, whether   *)
(* *xla_device_compiler was assigned and with what, the collaborator calls    *)
(* made, in order, and the client options as they were when the call ended.   *)
(* env holds the outcomes of the collaborators whose state is outside this    *)
(* file: compiler_lookup is the status of xla::Compiler::GetForPlatform,     *)
(* client_status the status of GetOrCreateLocalClient.                       *)

Returned(status, written, compiler, calls, client_options) ==
    [status |-> status, written |-> written, compiler |-> compiler,
     calls |-> calls, client_options |-> client_options]

\* faulty variant of RegistrationStep: the error names the registration, not the type
RegistrationStepWrongName(platform_info, client, calls, client_options) ==
    LET registration == GetCompilationDevice(platform_info.device_type)
        calls2 == Append(calls, "GetCompilationDevice")
    IN  IF ~registration.found
        THEN Returned(InvalidArgument(<<"No JIT device registered for ",
                                        registration.compilation_device_name>>),
                      FALSE, NoCompiler, calls2, client_options)
        ELSE Returned(OkStatus, TRUE,
                      CreateXlaDeviceCompiler(persistor_config,
                          registration.compilation_device_name, client),
                      calls2, client_options)

\* faulty variant of RegistrationStep: the output is reset before the error return
RegistrationStepResetsOutput(platform_info, client, calls, client_options) ==
    LET registration == GetCompilationDevice(platform_info.device_type)
        calls2 == Append(calls, "GetCompilationDevice")
    IN  IF ~registration.found
        THEN Returned(InvalidArgument(<<"No JIT device registered for ",
                                        platform_info.device_type>>),
                      TRUE, NoCompiler, calls2, client_options)
        ELSE Returned(OkStatus, TRUE,
                      CreateXlaDeviceCompiler(persistor_config,
                          registration.compilation_device_name, client),
                      calls2, client_options)

\* lines 147-157: the compilation-device lookup and the final construction
RegistrationStep(platform_info, client, calls, client_options) ==
    LET registration == GetCompilationDevice(platform_info.device_type)
        calls2 == Append(calls, "GetCompilationDevice")
    IN  IF ~registration.found
        THEN Returned(InvalidArgument(<<"No JIT device registered for ",
                                        platform_info.device_type>>),
                      FALSE, NoCompiler, calls2, client_options)
        ELSE Returned(OkStatus, TRUE,
                      CreateXlaDeviceCompiler(persistor_config,
                          registration.compilation_device_name, client),
                      calls2, client_options)

\* lines 135-146: the client options, the allowed devices and the client
ClientStep(device, flr, platform_info, env, platform, calls) ==
    LET options1 == [DefaultClientOptions EXCEPT
                        !.platform = platform.Name,
                        !.intra_op_parallelism_threads = device.num_threads]
        allowed_gpus == GetAllowedGpus(flr)
        calls2 == IF flr.has_config_proto
                  THEN Append(calls, "ParseVisibleDeviceList")
                  ELSE calls
    IN  IF allowed_gpus.status # OkStatus
        THEN Returned(allowed_gpus.status, FALSE, NoCompiler, calls2, options1)
        ELSE LET options2 == [options1 EXCEPT
                                 !.allowed_devices = allowed_gpus.value]
                 calls3 == Append(calls2, "GetOrCreateLocalClient")
             IN  IF env.client_status # OkStatus
                 THEN Returned(env.client_status, FALSE, NoCompiler, calls3,
                               options2)
                 ELSE RegistrationStep(platform_info, LocalClientFor(options2),
                                       calls3, options2)

\* faulty variant of CompilerLookupBailsOut: the comparison is inverted
CompilerLookupBailsOutInverted(compiler_for_platform) ==
    /\ compiler_for_platform # OkStatus
    /\ compiler_for_platform.code # "NOT_FOUND"

\* lines 114-133: a compiler lookup that fails with NOT_FOUND ends the call
CompilerLookupBailsOut(compiler_for_platform) ==
    /\ compiler_for_platform # OkStatus
    /\ compiler_for_platform.code = "NOT_FOUND"

CompilerLookupStep(device, flr, platform_info, env, platform, calls) ==
    LET calls2 == Append(calls, "GetForPlatform") IN
    IF CompilerLookupBailsOut(env.compiler_lookup)
    THEN Returned(Unimplemented(<<"Could not find compiler for platform ",
                                  platform.Name, ": ">>
                                \o StatusToString(env.compiler_lookup)),
                  FALSE, NoCompiler, calls2, DefaultClientOptions)
    ELSE ClientStep(device, flr, platform_info, env, platform, calls2)

\* lines 108-112: the platform of platform_info.platform_id()
GenericPath(device, flr, platform_info, env) ==
    LET platform == PlatformWithId(platform_info.platform_id)
        calls == <<"PlatformWithId">>
    IN  IF platform.status # OkStatus
        THEN Returned(platform.status, FALSE, NoCompiler, calls,
                      DefaultClientOptions)
        ELSE CompilerLookupStep(device, flr, platform_info, env,
                                platform.value, calls)

\* faulty variant of TpuPath: the device type of the device instead of the JIT tag
TpuPathDeviceTag(platform_info) ==
    Returned(OkStatus, TRUE,
             CreateXlaDeviceCompiler(persistor_config,
                                     platform_info.device_type, nullptr),
             <<>>, DefaultClientOptions)

\* lines 102-106: TFRT-TPU
TpuPath(platform_info) ==
    Returned(OkStatus, TRUE,
             CreateXlaDeviceCompiler(persistor_config, DEVICE_TPU_XLA_JIT,
                                     nullptr),
             <<>>, DefaultClientOptions)

\* lines 92-98: the device carries XlaDevice::Metadata
MetadataPath(platform_info) ==
    LET metadata == XlaDeviceMetadata(platform_info.xla_device_metadata) IN
    Returned(OkStatus, TRUE,
             CreateXlaDeviceCompiler(persistor_config,
                                     metadata.jit_device_type,
                                     metadata.client),
             <<>>, DefaultClientOptions)

\* faulty variant of BuildXlaDeviceCompiler: the TPU test comes before the metadata
BuildXlaDeviceCompilerTpuFirst(device, flr, platform_info, env) ==
    IF platform_info.device_type = DEVICE_TPU
    THEN TpuPath(platform_info)
    ELSE IF platform_info.xla_device_metadata # nullptr
    THEN MetadataPath(platform_info)
    ELSE GenericPath(device, flr, platform_info, env)

BuildXlaDeviceCompiler(device, flr, platform_info, env) ==
    IF platform_info.xla_device_metadata # nullptr
    THEN MetadataPath(platform_info)
    ELSE IF platform_info.device_type = DEVICE_TPU
    THEN TpuPath(platform_info)
    ELSE GenericPath(device, flr, platform_info, env)

-----------------------------------------------------------------------------
(* XlaPlatformInfoFromDevice *)

\* A device: its type, the XlaDevice::Metadata it carries when it is an
\* XlaDevice (nullptr otherwise), the platform of its accelerator stream
\* and the size of its CPU worker thread pool.
Devices ==
    [device_type : DeviceTypes, xla_metadata : MetadataPointers,
     stream_platform_id : {kCudaPlatformId}, num_threads : {2}]

\* XlaDevice::GetMetadataFromDevice(device, &metadata) as called on line 173:
\* OK and the device's metadata for an XlaDevice, an error and nullptr
\* for any other device
GetMetadataFromDevice(device) ==
    IF device.xla_metadata # nullptr
    THEN [status |-> OkStatus, xla_device_metadata |-> device.xla_metadata]
    ELSE [status |-> Internal(<<"Cannot get XLA metadata from non-XLA device">>),
          xla_device_metadata |-> nullptr]

\* faulty variant of XlaPlatformInfoFromDevice: the metadata lookup comes first
XlaPlatformInfoFromDeviceMetadataFirst(device) ==
    LET lookup == GetMetadataFromDevice(device) IN
    IF lookup.status = OkStatus
    THEN LET metadata == XlaDeviceMetadata(lookup.xla_device_metadata) IN
         XlaPlatformInfo(device.device_type, metadata.platform_id,
                         lookup.xla_device_metadata,
                         shared_memory_allocator(metadata.client))
    ELSE IF device.device_type = DEVICE_CPU
    THEN XlaPlatformInfo(device.device_type, kHostPlatformId, nullptr,
                         NullAllocator)
    ELSE IF device.device_type = DEVICE_GPU
    THEN XlaPlatformInfo(device.device_type, device.stream_platform_id,
                         nullptr, NullAllocator)
    ELSE XlaPlatformInfo(device.device_type, nullptr, nullptr, NullAllocator)

XlaPlatformInfoFromDevice(device) ==
    IF device.device_type = DEVICE_CPU
    THEN XlaPlatformInfo(device.device_type, kHostPlatformId, nullptr,
                         NullAllocator)
    ELSE IF device.device_type = DEVICE_GPU
    THEN XlaPlatformInfo(device.device_type, device.stream_platform_id,
                         nullptr, NullAllocator)
    ELSE LET lookup == GetMetadataFromDevice(device) IN
         IF lookup.status = OkStatus
         THEN LET metadata == XlaDeviceMetadata(lookup.xla_device_metadata) IN
              XlaPlatformInfo(device.device_type, metadata.platform_id,
                              lookup.xla_device_metadata,
                              shared_memory_allocator(metadata.client))
         ELSE XlaPlatformInfo(device.device_type, nullptr,
                              lookup.xla_device_metadata, NullAllocator)

-----------------------------------------------------------------------------
(* GetAllocator.  default_allocator is what device->GetAllocator({})       *)
(* returns, stream the se::Stream* argument.  StatusOr::value() on a        *)
(* StatusOr that holds an error aborts (or throws): the call does not       *)
(* complete and returns no allocator.                                       *)

DefaultAllocators == {nullptr, "device_allocator"}

Streams == {nullptr, "stream"}

\* faulty variant of GetAllocator: with a stream the custom allocator is returned
\* without the test that there is one
GetAllocatorUncheckedCustom(default_allocator, stream, platform_info) ==
    IF stream # nullptr
    THEN [completed |-> TRUE, allocator |-> platform_info.custom_allocator]
    ELSE IF platform_info.custom_allocator # NullAllocator
    THEN [completed |-> TRUE, allocator |-> platform_info.custom_allocator]
    ELSE LET platform == PlatformWithId(platform_info.platform_id) IN
         IF platform.status # OkStatus
         THEN [completed |-> FALSE, allocator |-> NullAllocator]
         ELSE [completed |-> TRUE,
               allocator |-> TfAllocatorAdapter(default_allocator,
                                                platform.value.Name)]

GetAllocator(default_allocator, stream, platform_info) ==
    IF platform_info.custom_allocator # NullAllocator
    THEN [completed |-> TRUE, allocator |-> platform_info.custom_allocator]
    ELSE IF stream = nullptr
    THEN LET platform == PlatformWithId(platform_info.platform_id) IN
         IF platform.status # OkStatus
         THEN [completed |-> FALSE, allocator |-> NullAllocator]
         ELSE [completed |-> TRUE,
               allocator |-> TfAllocatorAdapter(default_allocator,
                                                platform.value.Name)]
    ELSE [completed |-> TRUE,
          allocator |-> TfAllocatorAdapter(default_allocator, stream)]

-----------------------------------------------------------------------------
(* Inputs *)

\* characters of the enumerated visible device lists
Alphabet == {"0", "1", "-", "+", " ", "x", ","}

\* every list of at most MaxLen characters
ShortLists == UNION {[1..n -> Alphabet] : n \in 0..MaxLen}

\* entries at the edges of int32_t
EdgeEntries ==
    { <<"2","1","4","7","4","8","3","6","4","7">>,
      <<"2","1","4","7","4","8","3","6","4","8">>,
      <<"-","2","1","4","7","4","8","3","6","4","8">>,
      <<"-","2","1","4","7","4","8","3","6","4","9">>,
      <<"9","9","9","9","9","9","9","9","9","9","9">>,
      <<"7">> }

EdgeLists ==
    EdgeEntries \cup {a \o <<",">> \o b : a \in EdgeEntries, b \in EdgeEntries}

ExampleLists == { <<"0", ",", "1", ",", "1", ",", "2">>, <<"0", ",", "x">> }

VisibleDeviceLists == ShortLists \cup EdgeLists \cup ExampleLists

\* what flr->config_proto() gives BuildXlaDeviceCompiler
ConfigLists == { <<>>, <<"0", ",", "1">>, <<"0", ",", "x">> }

Flrs ==
    {[has_config_proto |-> FALSE, visible_device_list |-> <<>>]} \cup
    [has_config_proto : {TRUE}, visible_device_list : ConfigLists]

\* statuses xla::Compiler::GetForPlatform can hand back
CompilerLookups ==
    {OkStatus,
     NotFound(<<"could not find registered compiler for platform">>),
     Internal(<<"compiler factory failed">>)}

\* statuses xla::ClientLibrary::GetOrCreateLocalClient can hand back
ClientStatuses == {OkStatus, Internal(<<"failed to create client">>)}

Envs == [compiler_lookup : CompilerLookups, client_status : ClientStatuses]

\* PlatformInfo values as XlaPlatformInfoFromDevice pairs metadata and
\* allocator, for every device type and platform id
PairedPlatformInfos ==
    {pi \in PlatformInfos :
        pi.custom_allocator =
            IF pi.xla_device_metadata = nullptr THEN NullAllocator
            ELSE shared_memory_allocator(
                     XlaDeviceMetadata(pi.xla_device_metadata).client)}

-----------------------------------------------------------------------------
(* State machine *)

NullCompilerPointer == [id |-> 0, object |-> NoCompiler]

Init ==
    /\ op = "none"
    /\ args = <<>>
    /\ ret = <<>>
    /\ xla_device_compiler = NullCompilerPointer
    /\ num_created = 0
    /\ aborted = FALSE

\* a call of BuildXlaDeviceCompiler(device, flr, platform_info,
\* &xla_device_compiler)
BuildXlaDeviceCompilerCall(device, flr, platform_info, env) ==
    LET r == BuildXlaDeviceCompiler(device, flr, platform_info, env) IN
    /\ ~aborted
    /\ num_created < MaxCompilers
    /\ op' = "BuildXlaDeviceCompiler"
    /\ args' = [num_threads |-> device.num_threads, flr |-> flr,
                platform_info |-> platform_info, env |-> env,
                before |-> xla_device_compiler]
    /\ ret' = r
    /\ IF r.written
       THEN /\ num_created' = num_created + 1
            /\ xla_device_compiler' = [id |-> num_created + 1,
                                       object |-> r.compiler]
       ELSE UNCHANGED <<num_created, xla_device_compiler>>
    /\ UNCHANGED aborted

ParseVisibleDeviceListCall(visible_device_list) ==
    /\ ~aborted
    /\ op' = "ParseVisibleDeviceList"
    /\ args' = [visible_device_list |-> visible_device_list]
    /\ ret' = ParseVisibleDeviceList(visible_device_list)
    /\ UNCHANGED <<xla_device_compiler, num_created, aborted>>

XlaPlatformInfoFromDeviceCall(device) ==
    /\ ~aborted
    /\ op' = "XlaPlatformInfoFromDevice"
    /\ args' = [device |-> device]
    /\ ret' = XlaPlatformInfoFromDevice(device)
    /\ UNCHANGED <<xla_device_compiler, num_created, aborted>>

GetAllocatorCall(default_allocator, stream, platform_info) ==
    LET r == GetAllocator(default_allocator, stream, platform_info) IN
    /\ ~aborted
    /\ op' = "GetAllocator"
    /\ args' = [default_allocator |-> default_allocator, stream |-> stream,
                platform_info |-> platform_info]
    /\ ret' = r
    /\ aborted' = ~r.completed
    /\ UNCHANGED <<xla_device_compiler, num_created>>

\* Compiler construction: the calls a process makes to build compilers,
\* with the visible device lists its configurations carry.
Next ==
    \/ \E device \in Devices, flr \in Flrs,
          platform_info \in PairedPlatformInfos, env \in Envs :
          /\ device.device_type = platform_info.device_type
          /\ device.xla_metadata = platform_info.xla_device_metadata
          /\ BuildXlaDeviceCompilerCall(device, flr, platform_info, env)
    \/ \E list \in ConfigLists : ParseVisibleDeviceListCall(list)

Spec == Init /\ [][Next]_vars

\* Parsing: the caller holds one visible device list and parses it.
InitParse ==
    /\ op = "none"
    /\ args \in [visible_device_list : VisibleDeviceLists]
    /\ ret = <<>>
    /\ xla_device_compiler = NullCompilerPointer
    /\ num_created = 0
    /\ aborted = FALSE

NextParse ==
    /\ op = "none"
    /\ ParseVisibleDeviceListCall(args.visible_device_list)

SpecParse == InitParse /\ [][NextParse]_vars

\* Platform information and allocators.
NextPlatform ==
    \/ \E device \in Devices : XlaPlatformInfoFromDeviceCall(device)
    \/ \E default_allocator \in DefaultAllocators, stream \in Streams,
          platform_info \in PlatformInfos :
          GetAllocatorCall(default_allocator, stream, platform_info)

SpecPlatform == Init /\ [][NextPlatform]_vars

-----------------------------------------------------------------------------
(* Vocabulary of the properties *)

BuildReturned == op = "BuildXlaDeviceCompiler"

\* no backend metadata and a device type other than TPU
OnGenericPath ==
    /\ BuildReturned
    /\ args.platform_info.xla_device_metadata = nullptr
    /\ args.platform_info.device_type # DEVICE_TPU

RegisteredPlatformIds == {kHostPlatformId, kCudaPlatformId}

RegisteredDeviceTypes == {DEVICE_CPU, DEVICE_GPU}

PlatformResolves == args.platform_info.platform_id \in RegisteredPlatformIds

PlatformName == PlatformWithId(args.platform_info.platform_id).value.Name

Called(name) == \E i \in 1..Len(ret.calls) : ret.calls[i] = name

Mentions(message, piece) == \E i \in 1..Len(message) : message[i] = piece

OutputUntouched ==
    /\ ~ret.written
    /\ xla_device_compiler = args.before

\* the pieces of a list between its commas, by the positions of the commas
CommaPositions(list) == {i \in 1..Len(list) : list[i] = ","}

Cuts(list) == {0, Len(list) + 1} \cup CommaPositions(list)

EntryAfter(list, cut) ==
    LET next == CHOOSE c \in Cuts(list) :
                    /\ c > cut
                    /\ \A d \in Cuts(list) : d > cut => c <= d
    IN  SubSeq(list, cut + 1, next - 1)

EntryCuts(list) == Cuts(list) \ {Len(list) + 1}

Entries(list) == {EntryAfter(list, cut) : cut \in EntryCuts(list)}

IsInteger(entry) == SimpleAtoi(entry).ok

FirstBadCut(list) ==
    CHOOSE cut \in EntryCuts(list) :
        /\ ~IsInteger(EntryAfter(list, cut))
        /\ \A d \in EntryCuts(list) : d < cut => IsInteger(EntryAfter(list, d))

RECURSIVE JoinEntries(_)
JoinEntries(entries) ==
    IF Len(entries) = 1 THEN entries[1]
    ELSE entries[1] \o <<",">> \o JoinEntries(Tail(entries))

Orderings(n) == {p \in [1..n -> 1..n] : \A i, j \in 1..n : p[i] = p[j] => i = j}

ParseReturned == op = "ParseVisibleDeviceList"

-----------------------------------------------------------------------------
(* C1 *)

CompilerLookupFailed ==
    /\ OnGenericPath
    /\ PlatformResolves
    /\ args.env.compiler_lookup # OkStatus

FailsWithUnimplemented ==
    /\ ret.status.code = "UNIMPLEMENTED"
    /\ Mentions(ret.status.message, PlatformName)
    /\ ~Called("GetOrCreateLocalClient")
    /\ OutputUntouched

\* C1 as stated: on the generic path with a resolvable platform, every failed
\* compiler lookup, whatever its error code, ends the call with Unimplemented
\* naming the platform, and no client or compiler is created.
C1_EveryLookupFailureUnimplemented ==
    CompilerLookupFailed => FailsWithUnimplemented

\* C1 amended: a compiler lookup that fails with NOT_FOUND ends the call with
\* Unimplemented naming the platform, and no client or compiler is created;
\* a lookup that fails with another code does not end the call, which goes on
\* to set up the client options.
C1_NotFoundLookupUnimplemented ==
    CompilerLookupFailed =>
        IF args.env.compiler_lookup.code = "NOT_FOUND"
        THEN FailsWithUnimplemented
        ELSE /\ ret.client_options.platform = PlatformName
             /\ ret.client_options.intra_op_parallelism_threads
                    = args.num_threads

C1_Witness ==
    /\ CompilerLookupFailed
    /\ args.env.compiler_lookup.code = "NOT_FOUND"
    /\ ret.status.code = "UNIMPLEMENTED"
    /\ args.before.id > 0

-----------------------------------------------------------------------------
(* C2 *)

UnregisteredDeviceType ==
    /\ OnGenericPath
    /\ args.platform_info.device_type \notin RegisteredDeviceTypes

NoJitDeviceRegistered ==
    ret.status = InvalidArgument(<<"No JIT device registered for ",
                                   args.platform_info.device_type>>)

\* C2 as stated: on the generic path an unregistered device type always gives
\* InvalidArgument naming the device type, whatever the other steps do.
C2_UnregisteredAlwaysInvalidArgument ==
    UnregisteredDeviceType => NoJitDeviceRegistered

EarlierStepsSucceed ==
    /\ PlatformResolves
    /\ args.env.compiler_lookup.code # "NOT_FOUND"
    /\ GetAllowedGpus(args.flr).status = OkStatus
    /\ args.env.client_status = OkStatus

\* C2 amended: on the generic path an unregistered device type gives
\* InvalidArgument naming the device type when the platform resolves, the
\* compiler lookup does not fail with NOT_FOUND, the visible device list
\* parses and the client is obtained; when one of these steps fails, its
\* error is returned instead and the registry is not consulted.
C2_UnregisteredAfterEarlierSteps ==
    UnregisteredDeviceType =>
        IF EarlierStepsSucceed
        THEN NoJitDeviceRegistered /\ OutputUntouched
        ELSE ~Called("GetCompilationDevice") /\ ret.status # OkStatus

C2_Witness ==
    /\ UnregisteredDeviceType
    /\ EarlierStepsSucceed
    /\ args.env.compiler_lookup.code = "INTERNAL"
    /\ ret.status.code = "INVALID_ARGUMENT"
    /\ Called("GetCompilationDevice")

-----------------------------------------------------------------------------
(* C3 *)

GetAllocatorReturned == op = "GetAllocator"

\* no custom allocator, no stream, and a platform id that does not resolve
NeedsUnresolvablePlatform ==
    /\ args.platform_info.custom_allocator = NullAllocator
    /\ args.stream = nullptr
    /\ args.platform_info.platform_id \notin RegisteredPlatformIds

\* C3 as stated: with a non-null default allocator GetAllocator completes and
\* returns a non-null allocator for every stream, custom allocator and
\* platform id.
C3_AlwaysNonNullAllocator ==
    (GetAllocatorReturned /\ args.default_allocator # nullptr) =>
        ret.completed /\ ret.allocator # NullAllocator

\* C3 amended: with a non-null default allocator GetAllocator completes and
\* returns a non-null allocator, except when there is no custom allocator, no
\* stream and the platform id is unset or unresolvable: then the call does
\* not complete, it ends in StatusOr::value() without returning.
C3_NonNullAllocatorUnlessUnresolvable ==
    (GetAllocatorReturned /\ args.default_allocator # nullptr) =>
        IF NeedsUnresolvablePlatform
        THEN ~ret.completed /\ aborted
        ELSE ret.completed /\ ret.allocator # NullAllocator

C3_Witness ==
    /\ GetAllocatorReturned
    /\ args.default_allocator # nullptr
    /\ args.platform_info.custom_allocator = NullAllocator
    /\ args.stream # nullptr
    /\ args.platform_info.platform_id = nullptr
    /\ ret.allocator = TfAllocatorAdapter(args.default_allocator, args.stream)

-----------------------------------------------------------------------------
(* C4 *)

WithMetadata ==
    /\ BuildReturned
    /\ args.platform_info.xla_device_metadata # nullptr

BuiltFromMetadata ==
    LET metadata == XlaDeviceMetadata(args.platform_info.xla_device_metadata)
    IN  /\ ret.status = OkStatus
        /\ ret.written
        /\ xla_device_compiler.object.device_type = metadata.jit_device_type
        /\ xla_device_compiler.object.client = metadata.client
        /\ ret.calls = <<>>
        /\ ret.client_options = DefaultClientOptions

\* C4: a call whose PlatformInfo carries backend metadata returns OK with a
\* compiler that has the metadata's jit device type and client and makes no
\* collaborator call (no platform lookup, compiler lookup, visible device
\* list parsing, client creation or registry lookup), for every device type,
\* platform id and configuration; and a call that follows a call with the
\* same metadata yields a compiler with the same device type and client.
C4_MetadataPathDirect ==
    [][ WithMetadata' =>
           /\ BuiltFromMetadata'
           /\ (WithMetadata /\ args'.platform_info.xla_device_metadata
                               = args.platform_info.xla_device_metadata)
              => /\ xla_device_compiler'.object.device_type
                        = xla_device_compiler.object.device_type
                 /\ xla_device_compiler'.object.client
                        = xla_device_compiler.object.client ]_vars

C4_Witness ==
    /\ WithMetadata
    /\ args.platform_info.device_type = DEVICE_TPU
    /\ args.platform_info.platform_id = nullptr
    /\ args.flr.has_config_proto
    /\ GetAllowedGpus(args.flr).status # OkStatus
    /\ args.before.id > 0
    /\ args.before.object = xla_device_compiler.object
    /\ ret.status = OkStatus

-----------------------------------------------------------------------------
(* C5 *)

TpuWithoutMetadata ==
    /\ BuildReturned
    /\ args.platform_info.xla_device_metadata = nullptr
    /\ args.platform_info.device_type = DEVICE_TPU

\* C5: a call with device type TPU and no backend metadata returns OK with a
\* compiler whose device type is the TPU JIT tag and whose client is null,
\* whatever the platform id, the configuration and the registries are; no
\* collaborator is called.
C5_TpuFixedTagNullClient ==
    TpuWithoutMetadata =>
        /\ ret.status = OkStatus
        /\ ret.written
        /\ xla_device_compiler.object.device_type = "XLA_TPU_JIT"
        /\ xla_device_compiler.object.client = nullptr
        /\ ret.calls = <<>>

C5_Witness ==
    /\ TpuWithoutMetadata
    /\ args.platform_info.platform_id = kUnregisteredPlatformId
    /\ args.flr.has_config_proto
    /\ GetAllowedGpus(args.flr).status # OkStatus
    /\ args.env.compiler_lookup.code = "NOT_FOUND"
    /\ xla_device_compiler.object.device_type = "XLA_TPU_JIT"

-----------------------------------------------------------------------------
(* C6 *)

AllEntriesIntegers(list) ==
    /\ list # <<>>
    /\ \A entry \in Entries(list) : IsInteger(entry)

ParsedIntegers(list) == {SimpleAtoi(entry).value : entry \in Entries(list)}

\* the lists made of the entries of list in another order
Reorderings(list) ==
    LET entries == StrSplit(list)
        n == Len(entries)
    IN  {JoinEntries([i \in 1..n |-> entries[p[i]]]) : p \in Orderings(n)}

\* C6: a non-empty list whose entries all parse as 32-bit integers gives a
\* present set equal to the set of the parsed integers; duplicates collapse
\* and every reordering of the entries gives the same set.
C6_ParsedSetIsSetOfEntries ==
    (ParseReturned /\ AllEntriesIntegers(args.visible_device_list)) =>
        /\ ret.status = OkStatus
        /\ ret.value = Some(ParsedIntegers(args.visible_device_list))
        /\ \A other \in Reorderings(args.visible_device_list) :
              ParseVisibleDeviceList(other) = ret

C6_Witness ==
    /\ ParseReturned
    /\ args.visible_device_list = <<"0", ",", "1", ",", "1", ",", "2">>
    /\ ret.value = Some({0, 1, 2})

-----------------------------------------------------------------------------
(* C7 *)

SomeEntryNotInteger(list) ==
    /\ list # <<>>
    /\ \E entry \in Entries(list) : ~IsInteger(entry)

FirstBadEntry(list) == EntryAfter(list, FirstBadCut(list))

\* C7: a non-empty list with an entry that is not an integer, an empty entry
\* included, fails with InvalidArgument whose message carries the first such
\* entry and the whole list; no set is returned.
C7_BadEntryInvalidArgument ==
    (ParseReturned /\ SomeEntryNotInteger(args.visible_device_list)) =>
        /\ ret.status.code = "INVALID_ARGUMENT"
        /\ ret.status.message =
              <<"Could not parse entry in 'visible_device_list': '">>
              \o FirstBadEntry(args.visible_device_list)
              \o <<"'. visible_device_list = ">>
              \o args.visible_device_list
        /\ ~ret.value.has_value

C7_Witness ==
    /\ ParseReturned
    /\ args.visible_device_list = <<"1", ",", ",", "x">>
    /\ ret.status.code = "INVALID_ARGUMENT"
    /\ FirstBadEntry(args.visible_device_list) = <<>>

-----------------------------------------------------------------------------
(* C8 *)

\* the generic path got as far as the allowed devices
ReachedAllowedDevices ==
    /\ OnGenericPath
    /\ PlatformResolves
    /\ args.env.compiler_lookup.code # "NOT_FOUND"

\* C8: the empty list parses to nullopt with OK, not to a present empty set
\* and not to an error; and on the generic path a missing configuration and
\* a configuration with an empty visible device list both leave the client
\* options with an unrestricted allowed-device set and let the call go on to
\* the client.
C8_EmptyListUnrestricted ==
    /\ (ParseReturned /\ args.visible_device_list = <<>>) =>
           /\ ret.status = OkStatus
           /\ ~ret.value.has_value
    /\ (ReachedAllowedDevices
        /\ (~args.flr.has_config_proto \/ args.flr.visible_device_list = <<>>))
       => /\ ~ret.client_options.allowed_devices.has_value
          /\ ret.client_options.platform = PlatformName
          /\ Called("GetOrCreateLocalClient")

C8_Witness ==
    /\ ReachedAllowedDevices
    /\ args.flr.has_config_proto
    /\ args.flr.visible_device_list = <<>>
    /\ Called("ParseVisibleDeviceList")
    /\ ret.status = OkStatus
    /\ ret.client_options.allowed_devices = nullopt

-----------------------------------------------------------------------------
(* C9 *)

FromDeviceReturned == op = "XlaPlatformInfoFromDevice"

HasMetadata == ret.xla_device_metadata # nullptr

HasCustomAllocator == ret.custom_allocator # NullAllocator

\* C9: in a PlatformInfo made by XlaPlatformInfoFromDevice the metadata and
\* the custom allocator are both present or both absent; for CPU and GPU
\* devices both are absent even if the device carries metadata; for other
\* devices both are present exactly when the metadata lookup succeeds, and
\* when it fails the platform id is unset.
C9_MetadataAndAllocatorTogether ==
    FromDeviceReturned =>
        /\ HasMetadata <=> HasCustomAllocator
        /\ args.device.device_type \in {DEVICE_CPU, DEVICE_GPU} => ~HasMetadata
        /\ args.device.device_type \notin {DEVICE_CPU, DEVICE_GPU} =>
              /\ HasMetadata <=> args.device.xla_metadata # nullptr
              /\ ~HasMetadata => ret.platform_id = nullptr

C9_Witness ==
    /\ FromDeviceReturned
    /\ args.device.device_type = DEVICE_GPU
    /\ args.device.xla_metadata # nullptr
    /\ ~HasMetadata
    /\ ~HasCustomAllocator

-----------------------------------------------------------------------------
(* C10 *)

\* C10: BuildXlaDeviceCompiler assigns *xla_device_compiler exactly when it
\* returns OK: after an error return the output holds what it held before the
\* call, after an OK return it points to the compiler this call created, an
\* object no earlier call returned.
C10_OutputWrittenIffOk ==
    BuildReturned =>
        /\ ret.written <=> ret.status = OkStatus
        /\ ret.status # OkStatus => xla_device_compiler = args.before
        /\ ret.status = OkStatus =>
              /\ xla_device_compiler.object = ret.compiler
              /\ xla_device_compiler.id = num_created
              /\ xla_device_compiler.id > args.before.id

C10_Witness ==
    /\ BuildReturned
    /\ ret.status.code = "INVALID_ARGUMENT"
    /\ Called("GetCompilationDevice")
    /\ args.before.id > 0
    /\ xla_device_compiler = args.before

====
